---- MODULE Spec2Model ----
(***************************************************************************)
(* A model of index.js: the block listener (listenForTransactions) and the *)
(* API poller (fetchAndSaveAddresses) that share parser/addresses.json,    *)
(* parser/addresses.txt and the Telegram bot.                              *)
(*                                                                         *)
(* Node runs every callback to completion: a handler gives the thread back *)
(* only at an `await`.  Each action below is one such synchronous stretch, *)
(* except that the read of addresses.json and the write that follows it    *)
(* are two actions joined by `running`, so that their indivisibility is    *)
(* something the model checks instead of assumes.                          *)
(***************************************************************************)
EXTENDS Integers, Sequences, FiniteSets, TLC

\* ------------------------------------------------------------------ bounds
MaxRuns == 2        \* handler runs started: block notifications and poller runs
MaxTxs == 2         \* transactions of one block
MaxRecs == 2        \* records of one API response
MaxEdits == 1       \* edits of methods.json by its owner

\* ------------------------------------------------------- program constants
SelLen == 4         \* slice(0, 10): "0x" and 8 hex digits, i.e. 4 bytes

\* ------------------------------------------------------------ input values
\* transaction.data as a sequence of bytes
Datas == { <<1, 2, 3, 4, 5>>, <<9, 9>> }
\* what methods.json may list
Selectors == { <<1, 2, 3, 4>>, <<9, 9>> }
\* extractMethod's null
Null == << -1 >>
Senders == { "0xF1" }
Nonces == { 0, 1 }
\* transaction.to of a contract creation (null)
NoTo == ""
\* transaction.to: null, or the account the transaction is sent to
Recipients == { NoTo, "0xC0" }
Txs == [from : Senders, nonce : Nonces, data : Datas, to : Recipients]
\* item.address of an API record; "" is the missing (falsy) address
PollAddresses == { "", "0xA1", "0xa2" }
Names == { "Uniswap V2", "Token" }
Records == [address : PollAddresses, name : Names]
Addresses == { "0xa1", "0xa2" }
Sources == { "listener", "poller" }
Free == << "none", 0 >>
\* what the poller's await can throw: error.response.status (0: no
\* error.response) and whether error.request is set
Errors == { [status |-> 429, request |-> TRUE], [status |-> 500, request |-> TRUE],
            [status |-> 0, request |-> TRUE], [status |-> 0, request |-> FALSE] }
\* what a throwing writeFileSync throws: no response, no request
FsError == [status |-> 0, request |-> FALSE]

\* ------------------------------------------------------------------- state
VARIABLES
    json,               \* parser/addresses.json: sequence of [address, method]
    txt,                \* parser/addresses.txt: sequence of lines
    methods,            \* parser/methods.json
    edits,              \* edits of methods.json so far
    sent,               \* bot.sendMessage calls so far, per caller and address
    running,            \* the handler that holds the thread inside a stretch
    blockNumber,        \* block notifications delivered so far
    lpc,                \* block handler: position
    allowedMethods,     \* block handler: allowedMethods
    todo,               \* block handler: transactions of the block left
    transactionData,    \* block handler: transactionData
    transactionTo,      \* block handler: transaction.to
    existingData,       \* block handler: existingData
    thrown,             \* block handler: the call whose exception ended it
    tick,               \* poller runs started so far
    ppc,                \* poller run: position
    response,           \* poller run: response.data.data
    newAddresses,       \* poller run: newAddresses
    existingAddresses,  \* poller run: existingAddresses
    log,                \* poller run: what its catch or else branch printed
    exited,             \* the process has ended: "no", or whose promise rejected unhandled
    committed,          \* history: the candidate addresses of each run that wrote addresses.json
    fsError             \* history: some writeFileSync has thrown

vars == << json, txt, methods, edits, sent, running, blockNumber, lpc,
           allowedMethods, todo, transactionData, transactionTo, existingData,
           thrown, tick, ppc, response, newAddresses, existingAddresses, log,
           exited, committed, fsError >>

Blocks == 1 .. MaxRuns
Ticks == 1 .. MaxRuns
L(l) == << "L", l >>
P(p) == << "P", p >>

\* --------------------------------------------------------------- functions
Min(a, b) == IF a < b THEN a ELSE b

\* String.prototype.slice(0, n) on the bytes of the input data
Slice(data, n) == SubSeq(data, 1, Min(n, Len(data)))

\* String.prototype.toLowerCase on the address strings used here
ToLowerCase(s) ==
    CASE s = "0xA1" -> "0xa1"
      [] s = "0xA2" -> "0xa2"
      [] OTHER -> s

\* ethers.getCreateAddress({ from, nonce }): a checksummed address, one per
\* (sender, nonce)
GetCreateAddress(from, nonce) ==
    CASE nonce = 0 -> "0xA1"
      [] OTHER -> "0xA2"

\* variant of Some: the test never finds the address
SomeNever(data, a) == FALSE

\* existingData.some(data => data.address === a)
Some(data, a) == \E i \in 1 .. Len(data) : data[i].address = a

\* variant of Includes: the test of line 63 always passes
IncludesAny(allowed, methodSignature) == TRUE

\* allowedMethods.includes(methodSignature)
Includes(allowed, methodSignature) == methodSignature \in allowed

\* variant of LoadMethods: the list is the one the program started with
LoadMethodsAtStart(file) == { <<1, 2, 3, 4>> }

\* JSON.parse(fs.readFileSync(methodsFilePath)).methods
LoadMethods(file) == file

\* variant of Unshift: existingData.push(entry)
Push(entry, data) == Append(data, entry)

\* existingData.unshift(entry)
Unshift(entry, data) == << entry >> \o data

\* variant of UniqueNew: nothing is filtered out
UniqueNewAll(new, existing) == new

\* newAddresses.filter(address => !existingAddresses.some(...))
UniqueNew(new, existing) ==
    SelectSeq(new, LAMBDA a : ~ Some(existing, a.address))

\* uniqueNewAddresses.map(address => address.address)
AddressesOf(data) == [ i \in 1 .. Len(data) |-> data[i].address ]

\* variant of NewTxtContent: the new lines go to the end of the file
NewTxtContentAtEnd(addressesToWrite, existingTxt) == existingTxt \o addressesToWrite

\* addressesToWrite + '\n' + existingTxt, line by line
NewTxtContent(addressesToWrite, existingTxt) == addressesToWrite \o existingTxt

\* variant of Wanted: the name is not looked at
WantedAnyName(items) == SelectSeq(items, LAMBDA item : item.address # "")

\* .filter(item => item.address && item.name !== "Uniswap V2")
Wanted(items) ==
    SelectSeq(items, LAMBDA item : item.address # "" /\ item.name # "Uniswap V2")

\* variant of WithMethods: a record whose lookup gave null is dropped
WithMethodsFound(items, ms) ==
    SelectSeq([ i \in 1 .. Len(items) |->
                  [address |-> ToLowerCase(items[i].address), method |-> ms[i]] ],
              LAMBDA e : e.method # Null)

\* .map(async item => ({ address: item.address.toLowerCase(), method }))
\* once every lookup i has returned ms[i]
WithMethods(items, ms) ==
    [ i \in 1 .. Len(items) |->
        [address |-> ToLowerCase(items[i].address), method |-> ms[i]] ]

\* how many entries of data carry address a
Count(data, a) == Cardinality({ i \in 1 .. Len(data) : data[i].address = a })

\* variant of Yields: the file is read with an awaited call, so the handler
\* returns to the event loop between its read and its write
YieldsAlways(label) == TRUE

\* variant of Yields: the network calls are synchronous, so the handler keeps
\* the thread until it ends
YieldsAtEnd(label) == label \in { "idle", "done", "rejected" }

\* the handler stopped at this position has returned to the event loop: the
\* reads and writes of lines 75-85 and 113-146 are synchronous, so the
\* positions after the reads are not places where another handler can run
Yields(label) == label \notin { "check", "merge" }

\* variant of Catches: only errors that carry a response are caught
CatchesResponses(e) == e.status # 0

\* the try of line 96 catches whatever is thrown under it
Catches(e) == TRUE

\* what the catch of lines 152-164 prints for error e
Classify(e) ==
    IF e.status # 0
    THEN IF e.status = 429 THEN "rate limit" ELSE "api error"
    ELSE IF e.request THEN "no response" ELSE "error"

NoData == << >>
NoEntry == [address |-> "", method |-> Null]

Seqs(S, n) == UNION { [1 .. k -> S] : k \in 0 .. n }

\* -------------------------------------------------------------------- init
Init ==
    /\ json = << >>
    /\ txt = << >>
    /\ methods = { <<1, 2, 3, 4>> }
    /\ edits = 0
    /\ sent = [s \in Sources |-> [a \in Addresses |-> 0]]
    /\ running = Free
    /\ blockNumber = 0
    /\ lpc = [l \in Blocks |-> "idle"]
    /\ allowedMethods = [l \in Blocks |-> {}]
    /\ todo = [l \in Blocks |-> 0]
    /\ transactionData = [l \in Blocks |-> NoEntry]
    /\ transactionTo = [l \in Blocks |-> NoTo]
    /\ existingData = [l \in Blocks |-> NoData]
    /\ thrown = [l \in Blocks |-> "none"]
    /\ tick = 0
    /\ ppc = [p \in Ticks |-> "idle"]
    /\ response = [p \in Ticks |-> NoData]
    /\ newAddresses = [p \in Ticks |-> NoData]
    /\ existingAddresses = [p \in Ticks |-> NoData]
    /\ log = [p \in Ticks |-> "none"]
    /\ exited = "no"
    /\ committed = << >>
    /\ fsError = FALSE

listenerVars == << blockNumber, lpc, allowedMethods, todo, transactionData,
                   transactionTo, existingData, thrown >>
pollerVars == << tick, ppc, response, newAddresses, existingAddresses, log,
                 committed >>

\* handler self may take its next step: no other handler holds the thread
Resumes(self) == exited = "no" /\ running \in { Free, self }

\* handler self stops at position label
Stops(self, label) == running' = IF Yields(label) THEN Free ELSE self

\* ------------------------------------------------------------- environment
\* methods.json is edited by its owner
EditMethods(m) ==
    /\ edits < MaxEdits
    /\ m # methods
    /\ methods' = m
    /\ edits' = edits + 1
    /\ UNCHANGED << json, txt, sent, running, fsError, exited >>
    /\ UNCHANGED listenerVars
    /\ UNCHANGED pollerVars

\* ---------------------------------------------------------- block listener
\* the block handler leaves the loop body: next transaction, or the end
Advance(l) ==
    IF todo[l] > 1
    THEN /\ todo' = [todo EXCEPT ![l] = todo[l] - 1]
         /\ lpc' = [lpc EXCEPT ![l] = "getTransaction"]
         /\ allowedMethods' = allowedMethods
         /\ Stops(L(l), "getTransaction")
    ELSE /\ todo' = [todo EXCEPT ![l] = 0]
         /\ lpc' = [lpc EXCEPT ![l] = "done"]
         /\ allowedMethods' = [allowedMethods EXCEPT ![l] = {}]
         /\ Stops(L(l), "done")

\* call throws and nothing catches it: the handler's promise rejects, nothing
\* of the handler runs any more, and todo counts the transactions of its
\* block that it has not gone through
Reject(l, call) ==
    /\ todo' = [todo EXCEPT ![l] = IF todo[l] > 0 THEN todo[l] - 1 ELSE 0]
    /\ lpc' = [lpc EXCEPT ![l] = "rejected"]
    /\ thrown' = [thrown EXCEPT ![l] = call]
    /\ allowedMethods' = [allowedMethods EXCEPT ![l] = {}]
    /\ Stops(L(l), "rejected")

\* wssProvider.on('block', ...): lines 40-45
BlockEvent(l) ==
    /\ Resumes(Free)
    /\ blockNumber + tick < MaxRuns
    /\ l = blockNumber + 1
    /\ lpc[l] = "idle"
    /\ blockNumber' = l
    /\ allowedMethods' = [allowedMethods EXCEPT ![l] = LoadMethods(methods)]
    /\ lpc' = [lpc EXCEPT ![l] = "getBlock"]
    /\ Stops(L(l), "getBlock")
    /\ UNCHANGED << json, txt, fsError, exited, methods, edits, sent, todo,
                    transactionData, transactionTo, existingData, thrown >>
    /\ UNCHANGED pollerVars

\* getBlock resolves with a block of n transactions: lines 45-49
GetBlockResolve(l, n) ==
    /\ Resumes(L(l))
    /\ lpc[l] = "getBlock"
    /\ IF n > 0
       THEN /\ todo' = [todo EXCEPT ![l] = n]
            /\ lpc' = [lpc EXCEPT ![l] = "getTransaction"]
            /\ allowedMethods' = allowedMethods
            /\ Stops(L(l), "getTransaction")
       ELSE /\ todo' = todo
            /\ lpc' = [lpc EXCEPT ![l] = "done"]
            /\ allowedMethods' = [allowedMethods EXCEPT ![l] = {}]
            /\ Stops(L(l), "done")
    /\ UNCHANGED << json, txt, fsError, exited, methods, edits, sent, blockNumber,
                    transactionData, transactionTo, existingData, thrown >>
    /\ UNCHANGED pollerVars

\* getBlock resolves with null: line 47
GetBlockNull(l) ==
    /\ Resumes(L(l))
    /\ lpc[l] = "getBlock"
    /\ lpc' = [lpc EXCEPT ![l] = "done"]
    /\ allowedMethods' = [allowedMethods EXCEPT ![l] = {}]
    /\ Stops(L(l), "done")
    /\ UNCHANGED << json, txt, fsError, exited, methods, edits, sent, blockNumber,
                    todo, transactionData, transactionTo, existingData, thrown >>
    /\ UNCHANGED pollerVars

\* getBlock rejects: the exception leaves the handler at line 45
GetBlockReject(l) ==
    /\ Resumes(L(l))
    /\ lpc[l] = "getBlock"
    /\ Reject(l, "getBlock")
    /\ UNCHANGED << json, txt, fsError, exited, methods, edits, sent, blockNumber,
                    transactionData, transactionTo, existingData >>
    /\ UNCHANGED pollerVars

\* getTransaction resolves with null: lines 49-51
GetTransactionNull(l) ==
    /\ Resumes(L(l))
    /\ lpc[l] = "getTransaction"
    /\ Advance(l)
    /\ UNCHANGED << json, txt, fsError, exited, methods, edits, sent, blockNumber,
                    transactionData, transactionTo, existingData, thrown >>
    /\ UNCHANGED pollerVars

\* getTransaction rejects: the exception leaves the handler at line 49
GetTransactionReject(l) ==
    /\ Resumes(L(l))
    /\ lpc[l] = "getTransaction"
    /\ Reject(l, "getTransaction")
    /\ UNCHANGED << json, txt, fsError, exited, methods, edits, sent, blockNumber,
                    transactionData, transactionTo, existingData >>
    /\ UNCHANGED pollerVars

\* getTransaction resolves with a transaction: lines 49-66
GetTransactionResolve(l, transaction) ==
    /\ Resumes(L(l))
    /\ lpc[l] = "getTransaction"
    /\ LET methodSignature == Slice(transaction.data, SelLen)
           contractAddress ==
               ToLowerCase(GetCreateAddress(transaction.from, transaction.nonce))
       IN  IF Includes(allowedMethods[l], methodSignature)
           THEN /\ sent' = [sent EXCEPT !["listener"][contractAddress] = @ + 1]
                /\ transactionData' = [transactionData EXCEPT ![l] =
                       [address |-> contractAddress, method |-> methodSignature]]
                /\ transactionTo' = [transactionTo EXCEPT ![l] = transaction.to]
                /\ lpc' = [lpc EXCEPT ![l] = "sendMessage"]
                /\ Stops(L(l), "sendMessage")
                /\ UNCHANGED << todo, allowedMethods >>
           ELSE /\ Advance(l)
                /\ UNCHANGED << sent, transactionData, transactionTo >>
    /\ UNCHANGED << json, txt, fsError, exited, methods, edits, blockNumber,
                    existingData, thrown >>
    /\ UNCHANGED pollerVars

\* bot.sendMessage rejects: the exception leaves the handler at line 66
SendReject(l) ==
    /\ Resumes(L(l))
    /\ lpc[l] = "sendMessage"
    /\ Reject(l, "sendMessage")
    /\ UNCHANGED << json, txt, fsError, exited, methods, edits, sent, blockNumber,
                    transactionData, transactionTo, existingData >>
    /\ UNCHANGED pollerVars

\* bot.sendMessage resolves; the file is read: lines 66-77
SendResolve(l) ==
    /\ Resumes(L(l))
    /\ lpc[l] = "sendMessage"
    /\ existingData' = [existingData EXCEPT ![l] = json]
    /\ lpc' = [lpc EXCEPT ![l] = "check"]
    /\ Stops(L(l), "check")
    /\ UNCHANGED << json, txt, fsError, exited, methods, edits, sent, blockNumber,
                    allowedMethods, todo, transactionData, transactionTo, thrown >>
    /\ UNCHANGED pollerVars

\* the duplicate check and the write: lines 79-86; ok: writeFileSync returns
ListenerWrite(l, ok) ==
    /\ Resumes(L(l))
    /\ lpc[l] = "check"
    /\ existingData' = [existingData EXCEPT ![l] = NoData]
    /\ IF Some(existingData[l], transactionData[l].address)
       THEN /\ ok
            /\ Advance(l)
            /\ transactionData' = [transactionData EXCEPT ![l] = NoEntry]
            /\ transactionTo' = [transactionTo EXCEPT ![l] = NoTo]
            /\ UNCHANGED << json, fsError, thrown >>
       ELSE IF ok
            THEN /\ json' = Unshift(transactionData[l], existingData[l])
                 /\ Advance(l)
                 /\ transactionData' = [transactionData EXCEPT ![l] = NoEntry]
                 /\ transactionTo' = [transactionTo EXCEPT ![l] = NoTo]
                 /\ UNCHANGED << fsError, thrown >>
            ELSE /\ Reject(l, "writeFileSync")
                 /\ fsError' = TRUE
                 /\ UNCHANGED << json, transactionData, transactionTo >>
    /\ UNCHANGED << txt, methods, edits, sent, blockNumber, exited >>
    /\ UNCHANGED pollerVars

Listener(l) ==
    \/ BlockEvent(l)
    \/ \E n \in 0 .. MaxTxs : GetBlockResolve(l, n)
    \/ GetBlockNull(l)
    \/ GetBlockReject(l)
    \/ GetTransactionNull(l)
    \/ GetTransactionReject(l)
    \/ \E transaction \in Txs : GetTransactionResolve(l, transaction)
    \/ SendReject(l)
    \/ SendResolve(l)
    \/ \E ok \in BOOLEAN : ListenerWrite(l, ok)

\* -------------------------------------------------------------- API poller
\* what extractMethod returns: the first bytes of the input data, or null
LookupResults == { Slice(d, SelLen) : d \in Datas } \cup { Null }

\* the run is over at position label: its locals are dropped
Finish(p, label) ==
    /\ ppc' = [ppc EXCEPT ![p] = label]
    /\ response' = [response EXCEPT ![p] = NoData]
    /\ newAddresses' = [newAddresses EXCEPT ![p] = NoData]
    /\ existingAddresses' = [existingAddresses EXCEPT ![p] = NoData]
    /\ Stops(P(p), label)

\* e is thrown under the try of line 96: lines 152-164 print and the run
\* returns, or nothing catches e and the run's promise rejects
Throw(p, e) ==
    IF Catches(e)
    THEN /\ log' = [log EXCEPT ![p] = Classify(e)]
         /\ Finish(p, "done")
    ELSE /\ log' = log
         /\ Finish(p, "rejected")

\* fetchAndSaveAddresses is called (line 185, or the timer of line 190): line 97
TickStart(p) ==
    /\ Resumes(Free)
    /\ blockNumber + tick < MaxRuns
    /\ p = tick + 1
    /\ ppc[p] = "idle"
    /\ tick' = p
    /\ ppc' = [ppc EXCEPT ![p] = "get"]
    /\ Stops(P(p), "get")
    /\ UNCHANGED << json, txt, fsError, exited, methods, edits, sent, response,
                    newAddresses, existingAddresses, log, committed >>
    /\ UNCHANGED listenerVars

\* axios.get rejects with e: lines 152-164
AxiosReject(p, e) ==
    /\ Resumes(P(p))
    /\ ppc[p] = "get"
    /\ Throw(p, e)
    /\ UNCHANGED << json, txt, fsError, exited, methods, edits, sent, tick, committed >>
    /\ UNCHANGED listenerVars

\* the body has no array under "data": lines 101, 149-151
AxiosMalformed(p) ==
    /\ Resumes(P(p))
    /\ ppc[p] = "get"
    /\ log' = [log EXCEPT ![p] = "invalid"]
    /\ Finish(p, "done")
    /\ UNCHANGED << json, txt, fsError, exited, methods, edits, sent, tick, committed >>
    /\ UNCHANGED listenerVars

\* axios.get resolves with the records data; every lookup is started:
\* lines 97-110
AxiosResolve(p, data) ==
    /\ Resumes(P(p))
    /\ ppc[p] = "get"
    /\ response' = [response EXCEPT ![p] = data]
    /\ newAddresses' = [newAddresses EXCEPT ![p] =
           WithMethods(Wanted(data), [ i \in 1 .. Len(Wanted(data)) |-> Null ])]
    /\ ppc' = [ppc EXCEPT ![p] = "all"]
    /\ Stops(P(p), "all")
    /\ UNCHANGED << json, txt, fsError, exited, methods, edits, sent, tick,
                    existingAddresses, log, committed >>
    /\ UNCHANGED listenerVars

\* Promise.all resolves, lookup i having returned ms[i]; the file is read:
\* lines 102-115
AllResolve(p, ms) ==
    /\ Resumes(P(p))
    /\ ppc[p] = "all"
    /\ newAddresses' = [newAddresses EXCEPT ![p] = WithMethods(Wanted(response[p]), ms)]
    /\ existingAddresses' = [existingAddresses EXCEPT ![p] = json]
    /\ ppc' = [ppc EXCEPT ![p] = "merge"]
    /\ Stops(P(p), "merge")
    /\ UNCHANGED << json, txt, fsError, exited, methods, edits, sent, tick, response,
                    log, committed >>
    /\ UNCHANGED listenerVars

\* the merge, the messages and the two writes: lines 117-148;
\* okJson, okTxt: the writeFileSync of line 132, of lines 143/146 returns
PollerCommit(p, okJson, okTxt) ==
    /\ Resumes(P(p))
    /\ ppc[p] = "merge"
    /\ LET uniqueNewAddresses == UniqueNew(newAddresses[p], existingAddresses[p])
           mergedAddresses == uniqueNewAddresses \o existingAddresses[p]
           addressesToWrite == AddressesOf(uniqueNewAddresses)
       IN  /\ sent' = [sent EXCEPT !["poller"] =
                  [a \in Addresses |-> sent["poller"][a] + Count(uniqueNewAddresses, a)]]
           /\ IF ~ okJson
              THEN /\ okTxt
                   /\ fsError' = TRUE
                   /\ Throw(p, FsError)
                   /\ UNCHANGED << json, txt, committed >>
              ELSE /\ json' = mergedAddresses
                   /\ committed' = Append(committed, AddressesOf(newAddresses[p]))
                   /\ IF uniqueNewAddresses = << >>
                      THEN /\ okTxt
                           /\ Finish(p, "done")
                           /\ UNCHANGED << txt, fsError, log >>
                      ELSE IF okTxt
                           THEN /\ txt' = NewTxtContent(addressesToWrite, txt)
                                /\ Finish(p, "done")
                                /\ UNCHANGED << fsError, log >>
                           ELSE /\ fsError' = TRUE
                                /\ Throw(p, FsError)
                                /\ UNCHANGED txt
    /\ UNCHANGED << methods, edits, tick, exited >>
    /\ UNCHANGED listenerVars

Poller(p) ==
    \/ TickStart(p)
    \/ \E e \in Errors : AxiosReject(p, e)
    \/ AxiosMalformed(p)
    \/ \E data \in Seqs(Records, MaxRecs) : AxiosResolve(p, data)
    \/ \E ms \in [1 .. Len(Wanted(response[p])) -> LookupResults] : AllResolve(p, ms)
    \/ \E okJson, okTxt \in BOOLEAN : PollerCommit(p, okJson, okTxt)

\* ----------------------------------------------------------------- runtime
\* a promise nobody handles has rejected: the promise of a block handler
\* (lines 40-91, called by the provider), or that of a callback of the
\* forEach of lines 125-128, whose bot.sendMessage rejects; Node prints a
\* warning and goes on, or ends the process, as its version and flags say
UnhandledRejection(source) ==
    /\ Resumes(Free)
    /\ IF source = "listener"
       THEN \E l \in Blocks : lpc[l] = "rejected"
       ELSE \E a \in Addresses : sent["poller"][a] > 0
    /\ exited' = source
    /\ UNCHANGED << json, txt, methods, edits, sent, running, fsError >>
    /\ UNCHANGED listenerVars
    /\ UNCHANGED pollerVars

Next ==
    \/ \E m \in SUBSET Selectors : EditMethods(m)
    \/ \E l \in Blocks : Listener(l)
    \/ \E p \in Ticks : Poller(p)
    \/ \E source \in Sources : UnhandledRejection(source)

Spec == Init /\ [][Next]_vars
\* ------------------------------------------------------------ observations
JsonAddresses == { json[i].address : i \in 1 .. Len(json) }
TxtAddresses == { txt[i] : i \in 1 .. Len(txt) }
Sent(a) == sent["listener"][a] + sent["poller"][a]
Committed == { committed[i] : i \in 1 .. Len(committed) }

\* no handler is in flight
Quiescent ==
    /\ \A l \in Blocks : lpc[l] \in { "idle", "done", "rejected" }
    /\ \A p \in Ticks : ppc[p] \in { "idle", "done", "rejected" }

\* ------------------------------------------------------------------ claims

\* C1: addresses.json never holds two entries with the same address.
C1_UniqueAddresses ==
    \A i, j \in 1 .. Len(json) : i # j => json[i].address # json[j].address

\* C2: as long as every write has succeeded, addresses.json and addresses.txt
\* list the same set of addresses.
C2_SameMembership == ~ fsError => JsonAddresses = TxtAddresses

C4_NotifyAfterWrite == \A a \in Addresses : Sent(a) > 0 => a \in JsonAddresses

\* C5: a candidate whose address is already in addresses.json produces no
\* notification.
C5_NoNotificationForDuplicate ==
    [][ \A a \in Addresses :
          Sent(a)' > Sent(a) => a \notin JsonAddresses ]_vars

\* C6: a poller run whose response yields the candidates of an earlier run
\* that wrote addresses.json adds no entry and sends no notification.
C6_PollIdempotent ==
    [][ \A p \in Ticks :
          ppc[p] = "merge" /\ AddressesOf(newAddresses[p]) \in Committed
              => json' = json /\ sent' = sent ]_vars

\* C6 witness: two runs with the same candidate have written the registry,
\* which holds one entry and saw one notification.
C6_Witness ==
    /\ committed = << << "0xa1" >>, << "0xa1" >> >>
    /\ Len(json) = 1
    /\ Sent("0xa1") = 1

\* C7: while a handler is between its read of addresses.json and its write, no
\* other handler takes a step.
C7_AdmissionIndivisible ==
    [][ /\ \A l \in Blocks :
              lpc[l] = "check" =>
                  /\ ppc' = ppc
                  /\ \A k \in Blocks \ { l } : lpc'[k] = lpc[k]
                  /\ lpc'[l] # "check" => existingData[l] = json
        /\ \A p \in Ticks :
              ppc[p] = "merge" =>
                  /\ lpc' = lpc
                  /\ \A q \in Ticks \ { p } : ppc'[q] = ppc[q]
                  /\ ppc'[p] # "merge" => existingAddresses[p] = json ]_vars

\* C7 witness: a block handler has read the registry while a poller run is
\* waiting for its lookups.
C7_Witness ==
    /\ lpc[1] = "check"
    /\ ppc[1] = "all"
    /\ newAddresses[1] # << >>

\* C8: every step leaves the old addresses.json as the suffix of the new one.
C8_AppendOnly ==
    [][ /\ Len(json') >= Len(json)
        /\ SubSeq(json', Len(json') - Len(json) + 1, Len(json')) = json ]_vars

\* C8 witness: both paths have added an entry.
C8_Witness ==
    /\ Len(json) = 2
    /\ lpc[1] = "done"
    /\ ppc[1] = "done"
    /\ Sent("0xa1") = 1
    /\ Sent("0xa2") = 1

\* C9: once the listener has offered one address and the poller another, no
\* write has failed and nothing is in flight, each of the two addresses has
\* exactly one entry.
C9_BothAdmitted ==
    \A a, b \in Addresses :
        ( /\ Quiescent
          /\ ~ fsError
          /\ a # b
          /\ sent["listener"][a] = 1 /\ Sent(a) = 1
          /\ sent["poller"][b] = 1 /\ Sent(b) = 1 )
        => Count(json, a) = 1 /\ Count(json, b) = 1

\* C10: a block handler that has stopped because its notification could not
\* be sent has its candidate in addresses.json and has left no transaction
\* uninspected.
C10_FailedSendKeepsAdmission ==
    \A l \in Blocks :
        lpc[l] = "rejected" /\ thrown[l] = "sendMessage" =>
            /\ transactionData[l].address \in JsonAddresses
            /\ todo[l] = 0

\* C11: when the write of addresses.json fails during an admission, no
\* notification for the candidate has been or is sent, and the failure ends
\* the handler with an error instead of being contained.
C11_FailedWriteNotAdmitted ==
    [][ /\ \A l \in Blocks :
              lpc[l] = "check" /\ lpc'[l] = "rejected" =>
                  Sent(transactionData[l].address)' = 0
        /\ \A p \in Ticks :
              ( /\ ppc[p] = "merge"
                /\ ppc'[p] # "merge"
                /\ committed' = committed ) =>
                  /\ sent' = sent
                  /\ ppc'[p] = "rejected" ]_vars

\* C12: a block handler whose fetch of a block or of a transaction failed has
\* left no transaction of its block uninspected, and later blocks are still
\* handled.
C12_FetchFailureContained ==
    \A l \in Blocks :
        lpc[l] = "rejected" /\ thrown[l] \in { "getBlock", "getTransaction" } =>
            todo[l] = 0

\* C13: whatever a poller run did, its promise never rejects and nothing it
\* started ends the process, so the timer's next run takes place.
C13_TickNeverFatal ==
    /\ \A p \in Ticks : ppc[p] # "rejected"
    /\ exited # "poller"

\* the network calls a block handler waits for
ListenerWaits == { "getBlock", "getTransaction" }
\* the network calls a poller run waits for
PollerWaits == { "get", "all" }

\* no handler stands between its read of addresses.json and its write
GateFree ==
    /\ \A l \in Blocks : lpc[l] # "check"
    /\ \A p \in Ticks : ppc[p] # "merge"

\* C14: while a network call of one path has not returned, the other path can
\* start a handler, resume it when its own call returns, and take its read,
\* check and write of addresses.json.
C14_StalledCallDoesNotBlock ==
    exited = "no" =>
        /\ \A l \in Blocks : lpc[l] \in ListenerWaits =>
              /\ GateFree /\ blockNumber + tick < MaxRuns => ENABLED TickStart(tick + 1)
              /\ \A p \in Ticks :
                    /\ GateFree /\ ppc[p] = "get" =>
                           ENABLED (\E data \in Seqs(Records, MaxRecs) : AxiosResolve(p, data))
                    /\ GateFree /\ ppc[p] = "all" =>
                           ENABLED (\E ms \in [1 .. Len(Wanted(response[p])) -> LookupResults] :
                                        AllResolve(p, ms))
                    /\ ppc[p] = "merge" => ENABLED PollerCommit(p, TRUE, TRUE)
        /\ \A p \in Ticks : ppc[p] \in PollerWaits =>
              /\ GateFree /\ blockNumber + tick < MaxRuns =>
                     ENABLED BlockEvent(blockNumber + 1)
              /\ \A l \in Blocks :
                    /\ GateFree /\ lpc[l] = "getTransaction" =>
                           ENABLED (\E transaction \in Txs : GetTransactionResolve(l, transaction))
                    /\ GateFree /\ lpc[l] = "sendMessage" => ENABLED SendResolve(l)
                    /\ lpc[l] = "check" => ENABLED ListenerWrite(l, TRUE)

\* C14 witness: a poller run has admitted its candidate and ended while the
\* block fetch of a block handler that started before it has not returned.
C14_Witness ==
    /\ lpc[1] = "getBlock"
    /\ tick = 1
    /\ ppc[1] = "done"
    /\ JsonAddresses = { "0xa1" }
    /\ sent["poller"]["0xa1"] = 1

\* C15: a block handler loads methods.json when its block arrives, keeps that
\* set until it ends, and lets a transaction pass only if its selector is
\* in that set.
C15_AllowedReloadedPerBlock ==
    [][ \A l \in Blocks :
          /\ lpc[l] = "idle" /\ lpc'[l] # "idle" => allowedMethods'[l] = methods
          /\ lpc[l] \notin { "idle", "done", "rejected" }
               /\ lpc'[l] \notin { "idle", "done", "rejected" }
                 => allowedMethods'[l] = allowedMethods[l]
          /\ lpc[l] = "getTransaction" /\ lpc'[l] = "sendMessage"
                 => transactionData'[l].method \in allowedMethods[l] ]_vars

\* C15 witness: methods.json was edited after the first block, and the handler
\* of the second block lets a selector pass that only the edited file lists.
C15_Witness ==
    /\ edits = 1
    /\ lpc[1] = "done"
    /\ lpc[2] = "sendMessage"
    /\ transactionData[2].method = <<9, 9>>
    /\ <<9, 9>> \in allowedMethods[2]

\* C16: a block handler adds an entry to addresses.json only for a transaction
\* that has no recipient.
C16_OnlyCreationsAdmitted ==
    [][ \A l \in Blocks :
          lpc[l] = "check" /\ json' # json => transactionTo[l] = NoTo ]_vars

\* C17: a candidate whose address addresses.json already holds leaves
\* addresses.json and addresses.txt as they are.
C17_DuplicateChangesNothing ==
    [][ /\ \A l \in Blocks :
              ( /\ lpc[l] = "check"
                /\ lpc'[l] # "check"
                /\ transactionData[l].address \in JsonAddresses )
              => json' = json /\ txt' = txt
        /\ \A p \in Ticks :
              ( /\ ppc[p] = "merge"
                /\ ppc'[p] # "merge"
                /\ \A i \in 1 .. Len(newAddresses[p]) :
                       newAddresses[p][i].address \in JsonAddresses )
              => json' = json /\ txt' = txt ]_vars

\* C17 witness: a candidate was offered for an address that is stored with
\* another method, and the stored method is still there.
C17_Witness ==
    /\ committed = << << "0xa1" >> >>
    /\ lpc[1] = "done"
    /\ sent["listener"]["0xa1"] = 1
    /\ Len(json) = 1
    /\ json[1] = [address |-> "0xa1", method |-> Null]
    /\ txt = << "0xa1" >>

\* record item of a response has an address and not the excluded name
Good(item) == item.address # "" /\ item.name # "Uniswap V2"

\* C18: a lookup that returns null neither drops its record nor ends the run:
\* once the lookups are over there is one candidate per record that passed
\* the filter, in the order of the response, and a run that writes
\* addresses.json stores all of them, those without a method included.
C18_UnknownMethodStillCandidate ==
    [][ \A p \in Ticks :
          /\ ppc[p] = "all" => ppc'[p] \in { "all", "merge" }
          /\ ppc'[p] = "merge" =>
                /\ Cardinality({ j \in 1 .. Len(response'[p]) : Good(response'[p][j]) })
                       = Len(newAddresses'[p])
                /\ \A j \in 1 .. Len(response'[p]) : Good(response'[p][j]) =>
                       ToLowerCase(response'[p][j].address)
                           \in { newAddresses'[p][i].address : i \in 1 .. Len(newAddresses'[p]) }
          /\ ppc[p] = "merge" /\ committed' # committed =>
                \A i \in 1 .. Len(newAddresses[p]) :
                    \E k \in 1 .. Len(json') :
                        /\ json'[k].address = newAddresses[p][i].address
                        /\ newAddresses[p][i].address \notin JsonAddresses =>
                               json'[k].method = newAddresses[p][i].method ]_vars

\* C18 witness: one response gave two records, the lookup failed for the first
\* and found a selector for the second, and both are stored.
C18_Witness ==
    /\ committed = << << "0xa1", "0xa2" >> >>
    /\ json = << [address |-> "0xa1", method |-> Null],
                 [address |-> "0xa2", method |-> <<1, 2, 3, 4>>] >>
    /\ txt = << "0xa1", "0xa2" >>

\* C19: the candidates of a run are made of records that have an address and
\* not the excluded name, every such record of the response has its
\* candidate, and what the run adds to addresses.json or sends comes from
\* such a record.
C19_ExcludedRecordsDiscarded ==
    [][ \A p \in Ticks :
          /\ ppc'[p] \in { "all", "merge" } =>
                /\ \A i \in 1 .. Len(newAddresses'[p]) :
                      \E j \in 1 .. Len(response'[p]) :
                          /\ Good(response'[p][j])
                          /\ ToLowerCase(response'[p][j].address) = newAddresses'[p][i].address
                /\ \A j \in 1 .. Len(response'[p]) : Good(response'[p][j]) =>
                      \E i \in 1 .. Len(newAddresses'[p]) :
                          newAddresses'[p][i].address = ToLowerCase(response'[p][j].address)
          /\ ppc[p] = "merge" =>
                \A a \in Addresses :
                    ( \/ a \in JsonAddresses' \ JsonAddresses
                      \/ sent'["poller"][a] > sent["poller"][a]
                      \/ a \in TxtAddresses' \ TxtAddresses )
                    => \E j \in 1 .. Len(response[p]) :
                           /\ Good(response[p][j])
                           /\ ToLowerCase(response[p][j].address) = a ]_vars

\* C19 witness: a response held a record with the excluded name and a record
\* without it, and the run's only candidate is the second.
C19_Witness ==
    /\ ppc[1] = "merge"
    /\ response[1] = << [address |-> "0xA1", name |-> "Uniswap V2"],
                        [address |-> "0xa2", name |-> "Token"] >>
    /\ AddressesOf(newAddresses[1]) = << "0xa2" >>

RECURSIVE IsSubsequence(_, _)
\* the elements of s, in their order, can be found in t
IsSubsequence(s, t) ==
    IF s = << >> THEN TRUE
    ELSE IF t = << >> THEN FALSE
    ELSE IF Head(s) = Head(t) THEN IsSubsequence(Tail(s), Tail(t))
    ELSE IsSubsequence(s, Tail(t))

\* C20: the lines of addresses.txt are, in their order, a subsequence of the
\* addresses of addresses.json.
C20_TxtSubsequenceOfJson == IsSubsequence(txt, AddressesOf(json))

\* C20 witness: the write of addresses.txt failed in one run and succeeded in
\* the next, so addresses.txt lacks an address that addresses.json holds.
C20_Witness ==
    /\ fsError
    /\ Len(committed) = 2
    /\ AddressesOf(json) = << "0xa2", "0xa1" >>
    /\ txt = << "0xa2" >>

====
